---- MODULE Spec2Model ----
(***************************************************************************)
(* seelogWrapper: a facade in the style of Go's standard log package over  *)
(* the seelog engine.  The model follows src/seelogWrapper/log.go          *)
(* statement by statement for the functions that touch the engine's skip   *)
(* depth (StaticFuncCallDepth) and the active logger.  The seelog engine   *)
(* itself (leveled log calls, logger construction, ReplaceLogger, Flush,   *)
(* asynchronous delivery) is the part the wrapper calls into.              *)
(***************************************************************************)
EXTENDS Integers, Sequences, FiniteSets

VARIABLES
  depth,                      \* seelog's process-wide StaticFuncCallDepth
  seelogStaticFuncCallDepth,  \* the wrapper's captured baseline (log.go:44)
  Current,                    \* index in loggers of seelog's active logger
  loggers,                    \* every logger constructed so far
  output,                     \* records delivered to the sinks, in order
  records,                    \* every record handed to the engine, in order
  stack,                      \* per goroutine: facade frames, outermost first
  panicking,                  \* per goroutine: "" or the value of a raised panic
  exited,                     \* 0 running, 1 after os.Exit(1), 2 after an uncaught panic
  budget,                     \* per goroutine: facade calls it may still start
  operands,                   \* the operand lists the user code passes
  last                        \* per goroutine: the current or last top-level facade call

vars == <<depth, seelogStaticFuncCallDepth, Current, loggers, output, records,
          stack, panicking, exited, budget, operands, last>>

----------------------------------------------------------------------------
(* Bounds and input sets *)

MaxCalls == 2
MaxConcCalls == 1

Goroutines == {1, 2}

\* v ...interface{} : the operands of a call, each a string
Operands == {<<"x">>, <<"x", "y">>}

\* printf-style format strings, as token sequences
Formats == {<<"m=", "%v">>}

\* configuration documents handed to SetLoggerConfig
SyncConfig == "<seelog type=sync>"
AsyncConfig == "<seelog type=async>"
Configs == {SyncConfig, AsyncConfig, "<junk"}

----------------------------------------------------------------------------
(* The seelog engine *)

\* the engine's own default skip depth: a record logged with it is attributed
\* to the direct caller of log.Info, log.Error, ...
DefaultStaticFuncCallDepth == 3

\* fmt.Sprint over string operands: plain concatenation
Sprint(v) == v

RECURSIVE Sprintln(_)
\* fmt.Sprintln: operands separated by spaces, newline appended
Sprintln(v) ==
  IF v = <<>> THEN <<"\n">>
  ELSE IF Len(v) = 1 THEN <<v[1], "\n">>
  ELSE <<v[1], " ">> \o Sprintln(Tail(v))

RECURSIVE Sprintf(_, _)
\* fmt.Sprintf: every %v verb consumes the next operand
Sprintf(format, v) ==
  IF format = <<>>
    THEN IF v = <<>> THEN <<>> ELSE <<"%!(EXTRA">> \o v \o <<")">>
  ELSE IF Head(format) = "%v"
    THEN IF v = <<>>
           THEN <<"%!v(MISSING)">> \o Sprintf(Tail(format), v)
           ELSE <<Head(v)>> \o Sprintf(Tail(format), Tail(v))
  ELSE <<Head(format)>> \o Sprintf(Tail(format), v)

\* the frame a record is attributed to when the engine skips `d` frames and the
\* facade frames between the user's call site and the engine call are `frames`
Attribution(d, frames) ==
  LET extra == d - DefaultStaticFuncCallDepth
      n == Len(frames)
  IN  IF extra < 0 THEN "engine"
      ELSE IF extra < n THEN frames[n - extra]
      ELSE IF extra = n THEN "user"
      ELSE "caller of user"

\* log.LoggerFromConfigAsBytes: the logger the document describes, or none
ValidConfig(config) == config \in {SyncConfig, AsyncConfig}

NewLogger(config) ==
  [type |-> IF config = AsyncConfig THEN "async" ELSE "sync",
   queue |-> <<>>, closed |-> FALSE]

\* the logger table after construction, and the reference returned (0 is nil)
LoggerFromConfigAsBytes(config) ==
  IF ValidConfig(config)
    THEN [table |-> Append(loggers, NewLogger(config)), ref |-> Len(loggers) + 1]
    ELSE [table |-> loggers, ref |-> 0]

\* log.ReplaceLogger: refuses nil; otherwise, under the engine's lock, flushes and
\* closes the active logger and installs the new one
ReplaceLogger(table, logger) ==
  IF logger = 0
    THEN [err |-> TRUE, table |-> table, current |-> Current, out |-> output]
    ELSE [err |-> FALSE,
          table |-> [table EXCEPT ![Current].queue = <<>>, ![Current].closed = TRUE],
          current |-> logger,
          out |-> output \o table[Current].queue]

\* the record the engine builds for one leveled log call
Record(p, level, msg, frames, own) ==
  [id |-> Len(records) + 1, level |-> level, msg |-> msg, depth |-> depth,
   frames |-> frames, attributed |-> Attribution(depth, frames),
   caller |-> p, own |-> own, logger |-> Current,
   loggerOpen |-> (Current \in 1..Len(loggers)) /\ ~loggers[Current].closed]

\* a synchronous logger writes the record at once, an asynchronous one queues it
LoggersAfterLog(r) ==
  IF loggers[Current].type = "async"
    THEN [loggers EXCEPT ![Current].queue = Append(@, r)]
    ELSE loggers

OutputAfterLog(r) ==
  IF loggers[Current].type = "async" THEN output ELSE Append(output, r)

----------------------------------------------------------------------------
(* The facade: src/seelogWrapper/log.go *)

\* the seelog function each facade function calls, by the level it logs at
EngineCallTable(fn) ==
  CASE fn \in {"Trace", "Tracef"} -> "Trace"
    [] fn \in {"Debug", "Debugf"} -> "Debug"
    [] fn \in {"Info", "Infof"} -> "Info"
    [] fn \in {"Warn", "Warnf"} -> "Warn"
    [] fn \in {"Error", "Errorf"} -> "Error"
    [] fn = "Criticalf" -> "Critical"
    [] fn = "Critical" -> "Error"
    [] fn = "Fatal" -> "Error"
    [] fn = "Panic" -> "Critical"
    [] fn \in {"Print", "Println"} -> "Info"

\* a Print that logs through log.Debug
EngineCallPrintAsDebug(fn) ==
  IF fn = "Print" THEN "Debug" ELSE EngineCallTable(fn)

EngineCall(fn) == EngineCallTable(fn)

\* the adjustment added on top of whatever depth is in effect, so that nested
\* facade calls accumulate
AdjustedDepthAccumulating(b) == depth + 2

\* seelogStaticFuncCallDepth + 2
AdjustedDepth(b) == b + 2

\* a panic raised with the caller's first operand
PanicValueEcho(v) == v[1]

\* the value panic() is raised with in Panic
PanicValue(v) == "Panic in seelogWrapper, check last critical log for reason.!"

\* the format SetLoggerConfig hands to Panicf
ConfigErrorFormat == <<"Can not replace default logger with new config: ", "%v">>

\* the test inverted: if err == nil
ReplaceFailedInverted(err) == ~err

\* if err != nil
ReplaceFailed(err) == err

NoCall ==
  [fn |-> "none", state |-> "none", v |-> <<>>, format |-> <<>>,
   pre |-> 0, post |-> 0, active |-> 0, recs |-> <<>>, signal |-> ""]

Frame(fn, v, format) ==
  [fn |-> fn, pc |-> IF fn = "SetLoggerConfig" THEN "parse" ELSE "set",
   v |-> v, format |-> format, deferred |-> <<>>, own |-> 0,
   logger |-> 0, err |-> FALSE]

Top(p) == stack[p][Len(stack[p])]
FrameNames(p) == [i \in 1..Len(stack[p]) |-> stack[p][i].fn]
SetTop(p, f) == [stack EXCEPT ![p] = [@ EXCEPT ![Len(@)] = f]]
Push(p, f) == [stack EXCEPT ![p] = Append(@, f)]
Pop(p) == [stack EXCEPT ![p] = SubSeq(@, 1, Len(@) - 1)]

Idle(p) ==
  /\ exited = 0
  /\ stack[p] = <<>>
  /\ panicking[p] = ""

At(p, fn, pc) ==
  /\ exited = 0
  /\ panicking[p] = ""
  /\ stack[p] # <<>>
  /\ Top(p).fn = fn
  /\ Top(p).pc = pc

\* init(): capture the engine's depth, raise it by one, install the default
\* synchronous console logger (a valid document: SetLoggerConfig returns)
Init ==
  /\ seelogStaticFuncCallDepth = DefaultStaticFuncCallDepth
  /\ depth = DefaultStaticFuncCallDepth + 1
  /\ loggers = <<NewLogger(SyncConfig)>>
  /\ Current = 1
  /\ output = <<>>
  /\ records = <<>>
  /\ stack = [p \in Goroutines |-> <<>>]
  /\ panicking = [p \in Goroutines |-> ""]
  /\ exited = 0
  /\ budget = [p \in Goroutines |-> IF p = 1 THEN MaxCalls ELSE 0]
  /\ operands = Operands
  /\ last = [p \in Goroutines |-> NoCall]

\* the same program with a second goroutine of user code that logs too
InitConc ==
  /\ seelogStaticFuncCallDepth = DefaultStaticFuncCallDepth
  /\ depth = DefaultStaticFuncCallDepth + 1
  /\ loggers = <<NewLogger(SyncConfig)>>
  /\ Current = 1
  /\ output = <<>>
  /\ records = <<>>
  /\ stack = [p \in Goroutines |-> <<>>]
  /\ panicking = [p \in Goroutines |-> ""]
  /\ exited = 0
  /\ budget = [p \in Goroutines |-> IF p = 1 THEN MaxConcCalls ELSE 1]
  /\ operands = {<<"x">>}
  /\ last = [p \in Goroutines |-> NoCall]

\* a pass-through function: the whole body is one engine call
Forward(p, fn, msg) ==
  LET r == Record(p, EngineCall(fn), msg, <<fn>>, 0)
  IN  /\ Idle(p)
      /\ budget[p] > 0
      /\ budget' = [budget EXCEPT ![p] = @ - 1]
      /\ records' = Append(records, r)
      /\ loggers' = LoggersAfterLog(r)
      /\ output' = OutputAfterLog(r)
      /\ last' = [last EXCEPT ![p] =
                    [fn |-> fn, state |-> "returned", v |-> msg, format |-> <<>>,
                     pre |-> depth, post |-> depth, active |-> Current,
                     recs |-> <<r>>, signal |-> ""]]
      /\ UNCHANGED <<depth, seelogStaticFuncCallDepth, Current, stack, panicking,
                     exited, operands>>

Tracef(p) == \E f \in Formats, v \in operands : Forward(p, "Tracef", Sprintf(f, v))
Debugf(p) == \E f \in Formats, v \in operands : Forward(p, "Debugf", Sprintf(f, v))
Infof(p) == \E f \in Formats, v \in operands : Forward(p, "Infof", Sprintf(f, v))
Warnf(p) == \E f \in Formats, v \in operands : Forward(p, "Warnf", Sprintf(f, v))
Errorf(p) == \E f \in Formats, v \in operands : Forward(p, "Errorf", Sprintf(f, v))
Criticalf(p) == \E f \in Formats, v \in operands : Forward(p, "Criticalf", Sprintf(f, v))
Trace(p) == \E v \in operands : Forward(p, "Trace", Sprint(v))
Debug(p) == \E v \in operands : Forward(p, "Debug", Sprint(v))
Info(p) == \E v \in operands : Forward(p, "Info", Sprint(v))
Warn(p) == \E v \in operands : Forward(p, "Warn", Sprint(v))
Error(p) == \E v \in operands : Forward(p, "Error", Sprint(v))
Critical(p) == \E v \in operands : Forward(p, "Critical", Sprint(v))

\* Flush: the engine delivers everything the active logger has queued
Flush(p) ==
  /\ Idle(p)
  /\ budget[p] > 0
  /\ budget' = [budget EXCEPT ![p] = @ - 1]
  /\ output' = output \o loggers[Current].queue
  /\ loggers' = [loggers EXCEPT ![Current].queue = <<>>]
  /\ last' = [last EXCEPT ![p] =
                [fn |-> "Flush", state |-> "returned", v |-> <<>>, format |-> <<>>,
                 pre |-> depth, post |-> depth, active |-> Current,
                 recs |-> <<>>, signal |-> ""]]
  /\ UNCHANGED <<depth, seelogStaticFuncCallDepth, Current, records, stack,
                 panicking, exited, operands>>

\* the engine's own goroutine writes the oldest queued record of an open logger
Deliver ==
  /\ exited = 0
  /\ \E i \in 1..Len(loggers) :
       /\ ~loggers[i].closed
       /\ loggers[i].queue # <<>>
       /\ output' = Append(output, Head(loggers[i].queue))
       /\ loggers' = [loggers EXCEPT ![i].queue = Tail(@)]
  /\ UNCHANGED <<depth, seelogStaticFuncCallDepth, Current, records, stack,
                 panicking, exited, budget, operands, last>>

----------------------------------------------------------------------------
(* The standard-library-style functions, one step per statement *)

\* user code calls fn: a new frame, and the call's bookkeeping
Invoke(p, fn, v, format) ==
  /\ Idle(p)
  /\ budget[p] > 0
  /\ budget' = [budget EXCEPT ![p] = @ - 1]
  /\ stack' = Push(p, Frame(fn, v, format))
  /\ last' = [last EXCEPT ![p] =
                [fn |-> fn, state |-> "running", v |-> v, format |-> format,
                 pre |-> depth, post |-> 0, active |-> Current,
                 recs |-> <<>>, signal |-> ""]]
  /\ UNCHANGED <<depth, seelogStaticFuncCallDepth, Current, loggers, output,
                 records, panicking, exited, operands>>

UserCall(p) ==
  \/ \E fn \in {"Fatal", "Panic", "Print", "Println"}, v \in operands :
       Invoke(p, fn, v, <<>>)
  \/ \E fn \in {"Fatalf", "Panicf", "Printf"}, f \in Formats, v \in operands :
       Invoke(p, fn, v, f)
  \/ \E config \in Configs : Invoke(p, "SetLoggerConfig", <<config>>, <<>>)

\* log.SetStaticFuncCallDepth(seelogStaticFuncCallDepth + 2)
SetDepth(p) ==
  LET d == AdjustedDepth(seelogStaticFuncCallDepth)
  IN  /\ depth' = d
      /\ stack' = SetTop(p, [Top(p) EXCEPT !.pc = "defer", !.own = d])
      /\ UNCHANGED <<seelogStaticFuncCallDepth, Current, loggers, output, records,
                     panicking, exited, budget, operands, last>>

\* the depth the deferred call will set: its argument is evaluated at the
\* defer statement
DeferredDepth == seelogStaticFuncCallDepth

\* defer log.SetStaticFuncCallDepth(seelogStaticFuncCallDepth)
DeferRestore(p) ==
  /\ stack' = SetTop(p, [Top(p) EXCEPT !.pc = "body",
                                       !.deferred = <<DeferredDepth>> \o @])
  /\ UNCHANGED <<depth, seelogStaticFuncCallDepth, Current, loggers, output,
                 records, panicking, exited, budget, operands, last>>

\* the depth after a frame's deferred calls have run
AfterDeferred(f) ==
  IF f.deferred = <<>> THEN depth ELSE f.deferred[Len(f.deferred)]

\* the engine call of a frame: log.Info / log.Error / log.Critical
LogCall(p, msg, next) ==
  LET r == Record(p, EngineCall(Top(p).fn), msg, FrameNames(p), Top(p).own)
  IN  /\ records' = Append(records, r)
      /\ loggers' = LoggersAfterLog(r)
      /\ output' = OutputAfterLog(r)
      /\ last' = [last EXCEPT ![p].recs = Append(@, r)]
      /\ stack' = SetTop(p, [Top(p) EXCEPT !.pc = next])
      /\ UNCHANGED <<depth, seelogStaticFuncCallDepth, Current, panicking,
                     exited, budget, operands>>

\* a nested facade call: the callee's frame goes on top of the caller's
CallNested(p, fn, v, format, next) ==
  /\ stack' = [stack EXCEPT ![p] =
                 Append([@ EXCEPT ![Len(@)].pc = next], Frame(fn, v, format))]
  /\ UNCHANGED <<depth, seelogStaticFuncCallDepth, Current, loggers, output,
                 records, panicking, exited, budget, operands, last>>

\* the function returns: its deferred calls run, its frame goes
Return(p) ==
  LET d == AfterDeferred(Top(p))
  IN  /\ depth' = d
      /\ stack' = Pop(p)
      /\ last' = IF Len(stack[p]) = 1
                   THEN [last EXCEPT ![p].state = "returned", ![p].post = d]
                   ELSE last
      /\ UNCHANGED <<seelogStaticFuncCallDepth, Current, loggers, output, records,
                     panicking, exited, budget, operands>>

\* os.Exit(1): the process ends at once; no deferred call runs
OsExit(p, code) ==
  /\ exited' = code
  /\ last' = [last EXCEPT ![p].state = "exited", ![p].post = depth]
  /\ UNCHANGED <<depth, seelogStaticFuncCallDepth, Current, loggers, output,
                 records, stack, panicking, budget, operands>>

\* panic(value): the goroutine starts unwinding
RaisePanic(p, value) ==
  /\ panicking' = [panicking EXCEPT ![p] = value]
  /\ UNCHANGED <<depth, seelogStaticFuncCallDepth, Current, loggers, output,
                 records, stack, exited, budget, operands, last>>

Fatal(p) ==
  \/ At(p, "Fatal", "set") /\ SetDepth(p)
  \/ At(p, "Fatal", "defer") /\ DeferRestore(p)
  \/ At(p, "Fatal", "body") /\ LogCall(p, Sprint(Top(p).v), "exit")
  \/ At(p, "Fatal", "exit") /\ OsExit(p, 1)

Panic(p) ==
  \/ At(p, "Panic", "set") /\ SetDepth(p)
  \/ At(p, "Panic", "defer") /\ DeferRestore(p)
  \/ At(p, "Panic", "body") /\ LogCall(p, Sprint(Top(p).v), "panic")
  \/ At(p, "Panic", "panic") /\ RaisePanic(p, PanicValue(Top(p).v))

Print_(p) ==
  \/ At(p, "Print", "set") /\ SetDepth(p)
  \/ At(p, "Print", "defer") /\ DeferRestore(p)
  \/ At(p, "Print", "body") /\ LogCall(p, Sprint(Top(p).v), "ret")
  \/ At(p, "Print", "ret") /\ Return(p)

Println(p) ==
  \/ At(p, "Println", "set") /\ SetDepth(p)
  \/ At(p, "Println", "defer") /\ DeferRestore(p)
  \/ At(p, "Println", "body") /\ LogCall(p, Sprint(Sprintln(Top(p).v)), "ret")
  \/ At(p, "Println", "ret") /\ Return(p)

Fatalf(p) ==
  \/ At(p, "Fatalf", "set") /\ SetDepth(p)
  \/ At(p, "Fatalf", "defer") /\ DeferRestore(p)
  \/ At(p, "Fatalf", "body")
       /\ CallNested(p, "Fatal", Sprintf(Top(p).format, Top(p).v), <<>>, "ret")

Panicf(p) ==
  \/ At(p, "Panicf", "set") /\ SetDepth(p)
  \/ At(p, "Panicf", "defer") /\ DeferRestore(p)
  \/ At(p, "Panicf", "body")
       /\ CallNested(p, "Panic", Sprintf(Top(p).format, Top(p).v), <<>>, "ret")

Printf(p) ==
  \/ At(p, "Printf", "set") /\ SetDepth(p)
  \/ At(p, "Printf", "defer") /\ DeferRestore(p)
  \/ At(p, "Printf", "body")
       /\ CallNested(p, "Print", Sprintf(Top(p).format, Top(p).v), <<>>, "ret")
  \/ At(p, "Printf", "ret") /\ Return(p)

\* logger, _ := log.LoggerFromConfigAsBytes([]byte(config))
ParseConfig(p) ==
  LET made == LoggerFromConfigAsBytes(Top(p).v[1])
  IN  /\ loggers' = made.table
      /\ stack' = SetTop(p, [Top(p) EXCEPT !.pc = "replace", !.logger = made.ref])
      /\ UNCHANGED <<depth, seelogStaticFuncCallDepth, Current, output, records,
                     panicking, exited, budget, operands, last>>

\* the active logger is closed but the new one is never made the active one
InstallLoggerKeepCurrent(p) ==
  LET res == ReplaceLogger(loggers, Top(p).logger)
  IN  /\ loggers' = res.table
      /\ output' = res.out
      /\ stack' = SetTop(p, [Top(p) EXCEPT !.pc = "check", !.err = res.err])
      /\ UNCHANGED <<depth, seelogStaticFuncCallDepth, Current, records, panicking,
                     exited, budget, operands, last>>

\* err := log.ReplaceLogger(logger)
InstallLogger(p) ==
  LET res == ReplaceLogger(loggers, Top(p).logger)
  IN  /\ loggers' = res.table
      /\ Current' = res.current
      /\ output' = res.out
      /\ stack' = SetTop(p, [Top(p) EXCEPT !.pc = "check", !.err = res.err])
      /\ UNCHANGED <<depth, seelogStaticFuncCallDepth, records, panicking,
                     exited, budget, operands, last>>

SetLoggerConfig(p) ==
  \/ At(p, "SetLoggerConfig", "parse") /\ ParseConfig(p)
  \/ At(p, "SetLoggerConfig", "replace") /\ InstallLogger(p)
  \/ /\ At(p, "SetLoggerConfig", "check")
     /\ ReplaceFailed(Top(p).err)
     /\ CallNested(p, "Panicf", Top(p).v, ConfigErrorFormat, "ret")
  \/ /\ At(p, "SetLoggerConfig", "check")
     /\ ~ReplaceFailed(Top(p).err)
     /\ Return(p)

\* a panicking goroutine leaves its top frame: the frame's deferred calls run
Unwind(p) ==
  /\ exited = 0
  /\ panicking[p] # ""
  /\ stack[p] # <<>>
  /\ depth' = AfterDeferred(Top(p))
  /\ stack' = Pop(p)
  /\ UNCHANGED <<seelogStaticFuncCallDepth, Current, loggers, output, records,
                 panicking, exited, budget, operands, last>>

\* the panic reaches user code, which recovers from it
Recover(p) ==
  /\ exited = 0
  /\ panicking[p] # ""
  /\ stack[p] = <<>>
  /\ panicking' = [panicking EXCEPT ![p] = ""]
  /\ last' = [last EXCEPT ![p].state = "recovered", ![p].post = depth,
                          ![p].signal = panicking[p]]
  /\ UNCHANGED <<depth, seelogStaticFuncCallDepth, Current, loggers, output,
                 records, stack, exited, budget, operands>>

\* the panic reaches the top of the goroutine: the Go runtime ends the process
Crash(p) ==
  /\ exited = 0
  /\ panicking[p] # ""
  /\ stack[p] = <<>>
  /\ exited' = 2
  /\ last' = [last EXCEPT ![p].state = "crashed", ![p].post = depth,
                          ![p].signal = panicking[p]]
  /\ UNCHANGED <<depth, seelogStaticFuncCallDepth, Current, loggers, output,
                 records, stack, panicking, budget, operands>>

Next ==
  \/ Deliver
  \/ \E p \in Goroutines :
       \/ Tracef(p) \/ Debugf(p) \/ Infof(p) \/ Warnf(p) \/ Errorf(p) \/ Criticalf(p)
       \/ Trace(p) \/ Debug(p) \/ Info(p) \/ Warn(p) \/ Error(p) \/ Critical(p)
       \/ Flush(p)
       \/ UserCall(p)
       \/ Fatal(p) \/ Panic(p) \/ Print_(p) \/ Println(p)
       \/ Fatalf(p) \/ Panicf(p) \/ Printf(p)
       \/ SetLoggerConfig(p)
       \/ Unwind(p) \/ Recover(p) \/ Crash(p)

Spec == Init /\ [][Next]_vars

SpecConc == InitConc /\ [][Next]_vars

----------------------------------------------------------------------------
(* Properties *)

PassThroughFuncs ==
  {"Trace", "Debug", "Info", "Warn", "Error", "Critical",
   "Tracef", "Debugf", "Infof", "Warnf", "Errorf", "Criticalf"}

StdFuncs == {"Print", "Println", "Printf", "Fatal", "Fatalf", "Panic", "Panicf"}

\* the level a pass-through function is named after
NamedLevel(fn) ==
  CASE fn \in {"Trace", "Tracef"} -> "Trace"
    [] fn \in {"Debug", "Debugf"} -> "Debug"
    [] fn \in {"Info", "Infof"} -> "Info"
    [] fn \in {"Warn", "Warnf"} -> "Warn"
    [] fn \in {"Error", "Errorf"} -> "Error"
    [] fn \in {"Critical", "Criticalf"} -> "Critical"

Finished(p) == last[p].state \in {"returned", "recovered", "crashed"}

\* every operand of v occurs in msg
Contains(msg, v) == \A i \in DOMAIN v : \E j \in DOMAIN msg : msg[j] = v[i]

\* the message a call of the standard-library-style family is to log
ExpectedMsg(c) ==
  IF c.fn \in {"Printf", "Fatalf", "Panicf"} THEN Sprintf(c.format, c.v)
  ELSE IF c.fn = "Println" THEN Sprintln(c.v)
  ELSE c.v

FixedDiagnostic == "Panic in seelogWrapper, check last critical log for reason.!"

\* C1: when a facade call finishes (returns, or unwinds with the panic signal)
\* the engine's skip depth equals the value it had just before the call started.
C1_DepthRestored ==
  \A p \in Goroutines : Finished(p) => last[p].post = last[p].pre

\* C2: single-threaded, every record of a facade entry point is logged with the
\* captured baseline plus the number of facade frames between the user's call
\* site and the engine call, and so is attributed to the user's call site.
C2_AttributedToCallSite ==
  \A i \in DOMAIN records :
    LET r == records[i]
    IN  r.frames[1] \in PassThroughFuncs \cup StdFuncs =>
          /\ r.depth = seelogStaticFuncCallDepth + Len(r.frames)
          /\ r.attributed = "user"

\* C3: a pass-through call produces exactly one record, at the level the
\* function is named after.
C3_PassThroughLevel ==
  \A p \in Goroutines :
    last[p].fn \in PassThroughFuncs /\ last[p].state = "returned" =>
      /\ Len(last[p].recs) = 1
      /\ last[p].recs[1].level = NamedLevel(last[p].fn)

\* C4: Print, Println and Printf produce exactly one Info record, Fatal and
\* Fatalf exactly one Error record, Panic and Panicf exactly one Critical record;
\* the nested paths neither log twice nor change the level.
C4_StdLevelMapping ==
  \A p \in Goroutines :
    LET c == last[p]
        one(level) == Len(c.recs) = 1 /\ c.recs[1].level = level
    IN  /\ c.fn \in StdFuncs => Len(c.recs) <= 1
        /\ c.fn \in {"Print", "Println", "Printf"} /\ c.state = "returned"
             => one("Info")
        /\ c.fn \in {"Fatal", "Fatalf"} /\ c.state = "exited" => one("Error")
        /\ c.fn \in {"Panic", "Panicf"} /\ c.state \in {"recovered", "crashed"}
             => one("Critical")

C4_Witness ==
  /\ last[1].fn = "Printf" /\ last[1].state = "returned"
  /\ \E i \in DOMAIN records :
       records[i].frames = <<"Panicf", "Panic">> /\ records[i].level = "Critical"

\* C5: with goroutines logging concurrently, a record whose caller has set the
\* skip depth for its own call path is logged with that depth: no other
\* caller's set or restore changes it.
C5_OwnDepthAtLog ==
  \A i \in DOMAIN records :
    records[i].own # 0 => records[i].depth = records[i].own

\* C6: SetLoggerConfig raises the panic signal exactly when the document is
\* invalid, and then the logger active before the call is still the active one,
\* open, and has taken and emitted the call's Critical record.
C6_InvalidConfigPanics ==
  \A p \in Goroutines :
    LET c == last[p]
        valid == ValidConfig(c.v[1])
        raised == panicking[p] # "" \/ c.state \in {"recovered", "crashed"}
    IN  c.fn = "SetLoggerConfig" =>
          /\ c.state = "returned" => valid
          /\ raised => ~valid
          /\ raised => /\ Current = c.active
                       /\ ~loggers[Current].closed
                       /\ Len(c.recs) = 1
                       /\ c.recs[1].logger = c.active
                       /\ \/ \E j \in DOMAIN output : output[j] = c.recs[1]
                          \/ \E j \in DOMAIN loggers[Current].queue :
                               loggers[Current].queue[j] = c.recs[1]

C6_Witness ==
  /\ last[1].fn = "SetLoggerConfig"
  /\ last[1].state = "recovered"
  /\ ~ValidConfig(last[1].v[1])
  /\ loggers[Current].type = "async"

\* C7: Fatal and Fatalf emit exactly one Error record holding the operands, the
\* active engine has delivered it when the process terminates, and the exit
\* status is non-zero.
C7_FatalRecordDelivered ==
  \A p \in Goroutines :
    LET c == last[p]
    IN  c.fn \in {"Fatal", "Fatalf"} /\ c.state = "exited" =>
          /\ exited = 1
          /\ Len(c.recs) = 1
          /\ c.recs[1].level = "Error"
          /\ Contains(c.recs[1].msg, c.v)
          /\ \E j \in DOMAIN output : output[j] = c.recs[1]

\* C8: Panic and Panicf emit exactly one Critical record holding the operands
\* before the panic signal is raised, always raise it, and the value it carries
\* is the same fixed diagnostic whatever the operands.
C8_PanicLogsThenRaises ==
  \A p \in Goroutines :
    LET c == last[p]
    IN  c.fn \in {"Panic", "Panicf"} =>
          /\ c.state # "returned"
          /\ panicking[p] # "" => panicking[p] = FixedDiagnostic
          /\ c.state \in {"recovered", "crashed"} => c.signal = FixedDiagnostic
          /\ panicking[p] # "" \/ c.state \in {"recovered", "crashed"} =>
               /\ Len(c.recs) = 1
               /\ c.recs[1].level = "Critical"
               /\ c.recs[1].msg = ExpectedMsg(c)
               /\ Contains(c.recs[1].msg, c.v)

C8_Witness ==
  /\ last[1].fn = "Panicf"
  /\ last[1].state = "recovered"
  /\ last[1].v = <<"x", "y">>
  /\ last[1].signal = FixedDiagnostic

\* the places a handed record can be: a slot of the output, or of a queue
Slots ==
  ({0} \X DOMAIN output)
    \cup UNION {{i} \X DOMAIN loggers[i].queue : i \in DOMAIN loggers}

SlotRecord(s) == IF s[1] = 0 THEN output[s[2]] ELSE loggers[s[1]].queue[s[2]]

C10_DepthRange ==
  /\ depth \in seelogStaticFuncCallDepth .. seelogStaticFuncCallDepth + 2
  /\ \A i \in DOMAIN records :
       LET r == records[i]
       IN  r.frames[Len(r.frames)] \in {"Print", "Println", "Fatal", "Panic"}
             => r.depth = seelogStaticFuncCallDepth + 2

\* a nested Printf logged after an earlier facade call had run
C10_Witness ==
  \E i \in DOMAIN records :
    /\ i > 1
    /\ records[i].frames = <<"Printf", "Print">>
    /\ records[i].depth = seelogStaticFuncCallDepth + 2

====
